---- MODULE Spec2Model ----
(***************************************************************************)
(* Model of the DatoCMS-Image component (src/components/DatoImage.ts).     *)
(*                                                                         *)
(* One component instance is modelled: its props, the four refs of         *)
(* setup(), the life-cycle position, the IntersectionObserver it creates   *)
(* and the vnode tree its render function returns.  Every handler          *)
(* re-renders, as the framework does when a ref the render reads changes.  *)
(*                                                                         *)
(* Style objects are functions from CSS keys to strings, and an object     *)
(* spread is the right-biased merge of such functions.  Numbers that the   *)
(* code divides (width / aspectRatio) are rationals <<num, den>> in lowest *)
(* terms.  Attributes no property below reads (src, alt, title, srcset,    *)
(* sizes, class, background image and colour) are left out of the tree.    *)
(***************************************************************************)
EXTENDS Integers, Sequences, FiniteSets, TLC

VARIABLES
    env,             \* runtime tier: "ssr" (no window), "dom" (window without IntersectionObserver), "io"
    props,           \* the component's props
    phase,           \* "setup" (set up and rendered), "mounted", "unmounted"
    el,              \* el.value is bound to the root element
    observer,        \* observer.value: "null", or the state of the IntersectionObserver it holds
    inView,          \* inView.value
    loaded,          \* loaded.value
    out,             \* the vnode tree of the latest render
    disconnectCalls, \* history: calls of observer.disconnect() made by this instance
    inViewWrites,    \* history: assignments to inView.value made by this instance
    loadFired,       \* history: the real img's load event has fired
    qualified,       \* history: a callback whose first entry was intersecting was delivered
    threw,           \* history: a handler dereferenced a null observer
    lastCall         \* history: the handler that ran last, with its argument

vars == <<env, props, phase, el, observer, inView, loaded, out,
          disconnectCalls, inViewWrites, loadFired, qualified, threw, lastCall>>

----------------------------------------------------------------------------
(* Bounds of the model *)

MaxEntries == 2   \* entries handed to one observer callback
MaxWidth == 3     \* data.width ranges over 1..MaxWidth and the spec's example, 800
MaxHeight == 3    \* data.height, when set, ranges over 1..MaxHeight
MaxRatio == 3     \* aspectRatio = n / d with n, d in 1..MaxRatio

(* Program constants *)

DefaultFadeInDuration == 500

----------------------------------------------------------------------------
(* Values *)

Envs == {"ssr", "dom", "io"}

EmptyStyle == [k \in {} |-> ""]

\* The keys the component computes, and one it does not.
StyleKeys == {"position", "display", "overflow", "width", "height",
              "left", "top", "opacity", "transition", "color"}

\* Caller style objects: no key, or one key, carrying a value the component
\* never computes.  The merge works key by key, so one key at a time covers it.
CallerStyles == {EmptyStyle} \cup {[k \in {key} |-> "caller"] : key \in StyleKeys}

RECURSIVE Gcd(_, _)
Gcd(a, b) == IF b = 0 THEN a ELSE Gcd(b, a % b)

\* A rational in lowest terms.
Rat(n, d) == <<n \div Gcd(n, d), d \div Gcd(n, d)>>

\* a / b for an integer a and a rational b.
Divide(a, b) == Rat(a * b[2], b[1])

\* JavaScript truthiness of an optional number: <<>> is undefined, <<n>> is n.
Truthy(optNumber) == optNumber # <<>> /\ optNumber[1] # 0

\* Object spread: {...a, ...b}.
Merge(a, b) ==
    [k \in (DOMAIN a) \cup (DOMAIN b) |-> IF k \in DOMAIN b THEN b[k] ELSE a[k]]

absolutePositioning ==
    [position |-> "absolute", left |-> "0px", top |-> "0px",
     width |-> "100%", height |-> "100%"]

\* The descriptor of the documented example: width 800, aspect ratio 2, no height.
ExampleData == [width |-> 800, height |-> <<>>, aspectRatio |-> <<2, 1>>]

\* Props that vary the configuration and the caller's styles.
StyleProps ==
    [lazyLoad : BOOLEAN, explicitWidth : BOOLEAN,
     fadeInDuration : {0, DefaultFadeInDuration},
     pictureStyle : CallerStyles, rootStyle : CallerStyles,
     data : {ExampleData}]

Datas ==
    [width : (1..MaxWidth) \cup {ExampleData.width},
     height : {<<>>} \cup {<<n>> : n \in 1..MaxHeight},
     aspectRatio : (1..MaxRatio) \X (1..MaxRatio)]

\* Props that vary the image descriptor.
DataProps ==
    [lazyLoad : BOOLEAN, explicitWidth : BOOLEAN,
     fadeInDuration : {DefaultFadeInDuration},
     pictureStyle : {EmptyStyle}, rootStyle : {EmptyStyle},
     data : Datas]

\* The non-empty batches of entries an observer callback can receive; an
\* entry is its isIntersecting flag.
EntryBatches == UNION {[1..n -> BOOLEAN] : n \in 1..MaxEntries}

\* The values the state of one instance ranges over.
TypeOK ==
    /\ env \in Envs
    /\ props \in StyleProps \cup DataProps
    /\ phase \in {"setup", "mounted", "unmounted"}
    /\ el \in BOOLEAN
    /\ observer \in {"null", "idle", "observing", "disconnected"}
    /\ inView \in BOOLEAN
    /\ loaded \in BOOLEAN
    /\ disconnectCalls \in 0..2
    /\ inViewWrites \in 0..1
    /\ loadFired \in BOOLEAN
    /\ qualified \in BOOLEAN
    /\ threw \in BOOLEAN
    /\ lastCall.op \in {"setup", "mounted", "callback", "load", "unmount"}
    /\ lastCall.entries \in EntryBatches \cup {<<>>}

----------------------------------------------------------------------------
(* The computed values of setup() *)

ShouldAddImageEager(p, iv, ld) ==
    IF ~p.lazyLoad THEN TRUE
    ELSE IF env = "ssr" THEN FALSE
    ELSE TRUE

ShouldAddImageSsrFirst(p, iv, ld) ==
    IF env = "ssr" THEN FALSE
    ELSE IF ~p.lazyLoad THEN TRUE
    ELSE IF env = "io" THEN iv \/ ld
    ELSE TRUE

ShouldAddImage(p, iv, ld) ==
    IF ~p.lazyLoad THEN TRUE
    ELSE IF env = "ssr" THEN FALSE
    ELSE IF env = "io" THEN iv \/ ld
    ELSE TRUE

ShouldShowImageWhenInView(p, iv, ld) ==
    IF ~p.lazyLoad THEN TRUE
    ELSE IF env = "ssr" THEN FALSE
    ELSE IF env = "io" THEN iv \/ ld
    ELSE TRUE

ShouldShowImage(p, iv, ld) ==
    IF ~p.lazyLoad THEN TRUE
    ELSE IF env = "ssr" THEN FALSE
    ELSE IF env = "io" THEN ld
    ELSE TRUE

HeightIgnoringData(data) == Divide(data.width, data.aspectRatio)

\* props.data.height || props.data.width / props.data.aspectRatio
Height(data) ==
    IF Truthy(data.height) THEN Rat(data.height[1], 1)
    ELSE Divide(data.width, data.aspectRatio)

Transition(p) ==
    IF p.fadeInDuration # 0
    THEN "opacity " \o ToString(p.fadeInDuration) \o "ms "
                    \o ToString(p.fadeInDuration) \o "ms"
    ELSE "null"

\* The placeholder's <svg>: its width and height attributes.
Svg(data) == [width |-> data.width, height |-> Height(data)]

----------------------------------------------------------------------------
(* The render function *)

RootStyleCallerFirst(p) ==
    Merge(p.rootStyle,
          [display |-> IF p.explicitWidth THEN "inline-block" ELSE "block",
           overflow |-> "hidden", position |-> "relative"])

RootStyle(p) ==
    Merge(Merge([display |-> IF p.explicitWidth THEN "inline-block" ELSE "block",
                 overflow |-> "hidden"],
                p.rootStyle),
          [position |-> "relative"])

PlaceholderStyle(p) ==
    Merge([display |-> "block",
           width |-> IF p.explicitWidth
                     THEN ToString(p.data.width) \o "px" ELSE "100%"],
          p.pictureStyle)

BackgroundStyle(p, iv, ld) ==
    Merge([backgroundSize |-> "cover",
           opacity |-> IF ShouldShowImage(p, iv, ld) THEN "0" ELSE "1",
           transition |-> Transition(p)],
          absolutePositioning)

ImgStyleCallerLast(p, iv, ld) ==
    Merge(Merge(absolutePositioning,
                [opacity |-> IF ShouldShowImage(p, iv, ld) THEN "1" ELSE "0",
                 transition |-> Transition(p)]),
          p.pictureStyle)

ImgStyle(p, iv, ld) ==
    Merge(Merge(absolutePositioning, p.pictureStyle),
          [opacity |-> IF ShouldShowImage(p, iv, ld) THEN "1" ELSE "0",
           transition |-> Transition(p)])

NoscriptImgStyle(p) == Merge(p.pictureStyle, absolutePositioning)

\* The children of the root div, in order; picture is <<>> where the code
\* renders null, and otherwise holds the real img.
Render(p, iv, ld) ==
    [root |-> [style |-> RootStyle(p)],
     placeholder |-> [style |-> PlaceholderStyle(p), svg |-> Svg(p.data)],
     background |-> [style |-> BackgroundStyle(p, iv, ld)],
     picture |-> IF ShouldAddImage(p, iv, ld)
                 THEN <<[style |-> ImgStyle(p, iv, ld)]>>
                 ELSE <<>>,
     noscript |-> [style |-> NoscriptImgStyle(p), loading |-> "lazy"]]

----------------------------------------------------------------------------
(* The life cycle *)

NoCall(op) == [op |-> op, entries |-> <<>>]

\* setup(props) followed by the first render.
SetupState(p) ==
    /\ props = p
    /\ phase = "setup"
    /\ el = FALSE
    /\ observer = "null"
    /\ inView = FALSE
    /\ loaded = FALSE
    /\ out = Render(p, FALSE, FALSE)
    /\ disconnectCalls = 0
    /\ inViewWrites = 0
    /\ loadFired = FALSE
    /\ qualified = FALSE
    /\ threw = FALSE
    /\ lastCall = NoCall("setup")

Init == /\ env \in Envs
        /\ \E p \in StyleProps : SetupState(p)

InitData == /\ env \in Envs
            /\ \E p \in DataProps : SetupState(p)

\* onMounted.  The hook does not run on the server.  The framework has bound
\* el to the root element by now, or has left it null where it binds no ref
\* given to a render function.
OnMounted ==
    /\ phase = "setup"
    /\ env # "ssr"
    /\ phase' = "mounted"
    /\ \E bound \in BOOLEAN :
        /\ el' = bound
        /\ observer' = IF env = "io"
                       THEN (IF bound THEN "observing" ELSE "idle")
                       ELSE observer
    /\ lastCall' = NoCall("mounted")
    /\ UNCHANGED <<env, props, inView, loaded, out, disconnectCalls,
                   inViewWrites, loadFired, qualified, threw>>

\* Which entries make the callback act.
QualifiesAnyEntry(entries) == \E i \in DOMAIN entries : entries[i]

Qualifies(entries) == entries[1]

ObserverCallbackRepeating(entries) ==
    /\ phase = "mounted"
    /\ observer = "observing"
    /\ lastCall' = [op |-> "callback", entries |-> entries]
    /\ qualified' = (qualified \/ entries[1])
    /\ inView' = entries[1]
    /\ inViewWrites' = IF inViewWrites < 2 THEN inViewWrites + 1 ELSE inViewWrites
    /\ out' = Render(props, inView', loaded)
    /\ UNCHANGED <<env, props, phase, el, observer, loaded, disconnectCalls,
                   loadFired, threw>>

\* The IntersectionObserver callback.  The platform delivers it only for an
\* observer that is observing a target.
ObserverCallback(entries) ==
    /\ phase = "mounted"
    /\ observer = "observing"
    /\ lastCall' = [op |-> "callback", entries |-> entries]
    /\ qualified' = (qualified \/ entries[1])
    /\ IF Qualifies(entries) /\ observer # "null"
       THEN /\ inView' = TRUE
            /\ inViewWrites' = inViewWrites + 1
            /\ observer' = "disconnected"
            /\ disconnectCalls' = disconnectCalls + 1
       ELSE UNCHANGED <<inView, inViewWrites, observer, disconnectCalls>>
    /\ out' = Render(props, inView', loaded)
    /\ UNCHANGED <<env, props, phase, el, loaded, loadFired, threw>>

\* load, the real img's onLoad.  The event needs the img in the document.
Load ==
    /\ phase = "mounted"
    /\ out.picture # <<>>
    /\ loaded' = TRUE
    /\ loadFired' = TRUE
    /\ lastCall' = NoCall("load")
    /\ out' = Render(props, inView, TRUE)
    /\ UNCHANGED <<env, props, phase, el, observer, inView, disconnectCalls,
                   inViewWrites, qualified, threw>>

UnmountGuardMissing == TRUE

\* "IntersectionObserver" in window && observer.value
UnmountGuard == env = "io" /\ observer # "null"

\* onBeforeUnmount.
OnBeforeUnmount ==
    /\ phase = "mounted"
    /\ phase' = "unmounted"
    /\ lastCall' = NoCall("unmount")
    /\ IF UnmountGuard
       THEN /\ threw' = (threw \/ observer = "null")
            /\ observer' = IF observer = "null" THEN "null" ELSE "disconnected"
            /\ disconnectCalls' = IF observer = "null" THEN disconnectCalls
                                  ELSE disconnectCalls + 1
       ELSE UNCHANGED <<threw, observer, disconnectCalls>>
    /\ UNCHANGED <<env, props, el, inView, loaded, out, inViewWrites, loadFired,
                   qualified>>

\* The component is mounted again: a new instance, set up with the same props.
Setup ==
    /\ phase = "unmounted"
    /\ phase' = "setup"
    /\ el' = FALSE
    /\ observer' = "null"
    /\ inView' = FALSE
    /\ loaded' = FALSE
    /\ out' = Render(props, FALSE, FALSE)
    /\ disconnectCalls' = 0
    /\ inViewWrites' = 0
    /\ loadFired' = FALSE
    /\ qualified' = FALSE
    /\ threw' = FALSE
    /\ lastCall' = NoCall("setup")
    /\ UNCHANGED <<env, props>>

Next ==
    \/ OnMounted
    \/ \E entries \in EntryBatches : ObserverCallback(entries)
    \/ Load
    \/ OnBeforeUnmount
    \/ Setup

Spec == Init /\ [][Next]_vars

SpecData == InitData /\ [][Next]_vars

----------------------------------------------------------------------------
(* What the render output shows *)

PicturePresent == out.picture # <<>>

ImgOpacity == out.picture[1].style.opacity

BgOpacity == out.background.style.opacity

LazyWithDetection == props.lazyLoad /\ env = "io"

----------------------------------------------------------------------------
(* Properties *)

\* C1: with lazyLoad = true in a DOM with visibility detection, the real
\* image is absent before any qualifying visibility callback; from the first
\* qualifying callback until the load event it is present with opacity 0
\* under a background of opacity 1; after its load event it has opacity 1 and
\* the background opacity 0.
C1_LazyStages ==
    LazyWithDetection =>
        /\ ~qualified => ~PicturePresent
        /\ (qualified /\ ~loadFired) =>
               PicturePresent /\ ImgOpacity = "0" /\ BgOpacity = "1"
        /\ loadFired => PicturePresent /\ ImgOpacity = "1" /\ BgOpacity = "0"

C1_Witness == LazyWithDetection /\ qualified /\ loadFired /\ ImgOpacity = "1"

\* C2: the two derived booleans equal the reference table of the
\* specification for every lazyLoad, environment tier and flag values, the
\* render output follows them, and lazyLoad = false makes both true on the
\* first render.
C2_DerivedBooleansTable ==
    LET mount == CASE ~props.lazyLoad -> TRUE
                   [] props.lazyLoad /\ env = "ssr" -> FALSE
                   [] props.lazyLoad /\ env = "dom" -> TRUE
                   [] props.lazyLoad /\ env = "io" -> (inView \/ loaded)
        reveal == CASE ~props.lazyLoad -> TRUE
                    [] props.lazyLoad /\ env = "ssr" -> FALSE
                    [] props.lazyLoad /\ env = "dom" -> TRUE
                    [] props.lazyLoad /\ env = "io" -> loaded
    IN  /\ ShouldAddImage(props, inView, loaded) = mount
        /\ ShouldShowImage(props, inView, loaded) = reveal
        /\ PicturePresent = mount
        /\ (BgOpacity = "0") = reveal
        /\ (phase = "setup" /\ ~props.lazyLoad) =>
               /\ ShouldAddImage(props, inView, loaded)
               /\ ShouldShowImage(props, inView, loaded)

C2_Witness == LazyWithDetection /\ inView /\ ~loaded /\ PicturePresent

\* C3: isIntersecting and isLoaded are false when the instance is set up, and
\* within one mount life cycle no step sets either back to false.
C3_FlagsMonotonic ==
    /\ [](phase = "setup" => (~inView /\ ~loaded))
    /\ [][phase' # "setup" => ((inView => inView') /\ (loaded => loaded'))]_vars

C3_Witness == inView /\ loaded /\ phase = "unmounted"

\* C4: a qualifying callback calls disconnect exactly once; unmounting with a
\* watcher that was created and never triggered calls it exactly once, the
\* only call of that life cycle; unmounting never fails, whether the watcher
\* was already detached by a qualifying callback or was never created.
C4_DisconnectDiscipline ==
    /\ [](~threw)
    /\ [](phase = "unmounted" =>
            disconnectCalls = IF observer = "null" THEN 0
                              ELSE IF qualified THEN 2 ELSE 1)
    /\ [][/\ (/\ phase = "mounted" /\ observer = "observing"
              /\ lastCall'.op = "callback" /\ lastCall'.entries[1])
             => disconnectCalls' = disconnectCalls + 1
          /\ (/\ phase = "mounted" /\ phase' = "unmounted"
              /\ observer \in {"idle", "observing"})
             => (disconnectCalls = 0 /\ disconnectCalls' = 1)
          /\ (/\ phase = "mounted" /\ phase' = "unmounted"
              /\ observer \in {"null", "disconnected"})
             => ~threw']_vars

C4_Witness ==
    /\ phase = "unmounted" /\ env = "io" /\ ~qualified
    /\ observer = "disconnected" /\ disconnectCalls = 1

\* C5: when lazyLoad is false no visibility watcher is created or attached
\* on mount, and isIntersecting is never set.
C5_NoWatcherWithoutLazyLoad ==
    ~props.lazyLoad => (observer = "null" /\ ~inView /\ inViewWrites = 0)

\* C6, as stated: every key of rootStyle has the caller's value in the
\* container's style, and every key of pictureStyle has the caller's value in
\* the style of the placeholder img, the real img and the no-script img.
C6_CallerStylesAlwaysWin ==
    /\ \A k \in DOMAIN props.rootStyle : out.root.style[k] = props.rootStyle[k]
    /\ \A k \in DOMAIN props.pictureStyle :
        /\ out.placeholder.style[k] = props.pictureStyle[k]
        /\ PicturePresent => out.picture[1].style[k] = props.pictureStyle[k]
        /\ out.noscript.style[k] = props.pictureStyle[k]

\* C6, amended: the caller's value wins for every key except those the
\* component writes after the caller's: position on the container (always
\* "relative"), opacity and transition on the real img (always the computed
\* ones), and position, left, top, width, height on the no-script img
\* (always the absolute positioning).  On the placeholder img every caller
\* key wins.
C6_CallerStylesWinUnlessPinned ==
    /\ \A k \in DOMAIN props.rootStyle :
        out.root.style[k] =
            IF k = "position" THEN "relative" ELSE props.rootStyle[k]
    /\ \A k \in DOMAIN props.pictureStyle :
        /\ out.placeholder.style[k] = props.pictureStyle[k]
        /\ PicturePresent =>
            CASE k = "opacity" -> out.picture[1].style[k] \in {"0", "1"}
              [] k = "transition" ->
                    out.picture[1].style[k] =
                        IF props.fadeInDuration = 0 THEN "null"
                        ELSE "opacity 500ms 500ms"
              [] OTHER -> out.picture[1].style[k] = props.pictureStyle[k]
        /\ out.noscript.style[k] =
            CASE k = "position" -> "absolute"
              [] k \in {"left", "top"} -> "0px"
              [] k \in {"width", "height"} -> "100%"
              [] OTHER -> props.pictureStyle[k]

C6_Witness ==
    /\ "display" \in DOMAIN props.rootStyle
    /\ "width" \in DOMAIN props.pictureStyle
    /\ PicturePresent
    /\ out.root.style["display"] = "caller"
    /\ out.picture[1].style["width"] = "caller"

\* C7, as stated: whenever the real image is present it has opacity 0 until
\* its load event has fired, and opacity 1 only after it.
C7_OpaqueOnlyAfterLoad ==
    PicturePresent =>
        /\ ImgOpacity = "1" => (loadFired /\ loaded)
        /\ ~loadFired => ImgOpacity = "0"

\* C7, amended: with lazyLoad = true and visibility detection, a present real
\* image has opacity 0 as long as its load event has not fired and opacity 1
\* once it has set isLoaded; with lazyLoad = false, or in a DOM without
\* visibility detection, the real image is present with opacity 1 from the
\* first render on, load event or not.
C7_LazyOpaqueOnlyAfterLoad ==
    /\ (LazyWithDetection /\ PicturePresent) =>
        IF loadFired THEN loaded /\ ImgOpacity = "1" ELSE ImgOpacity = "0"
    /\ (~props.lazyLoad \/ env = "dom") => (PicturePresent /\ ImgOpacity = "1")

C7_Witness ==
    /\ LazyWithDetection /\ PicturePresent /\ ~loadFired
    /\ phase = "unmounted" /\ ImgOpacity = "0"

\* C8: the height written into the placeholder SVG is data.height whenever
\* data.height is set, whatever the aspect ratio, and width / aspectRatio
\* whenever it is unset; width 800 with aspect ratio 2 and no height gives 400.
C8_PlaceholderHeight ==
    LET d == props.data
        h == out.placeholder.svg.height
    IN  /\ d.height # <<>> => h = <<d.height[1], 1>>
        /\ d.height = <<>> =>
               h[1] * d.aspectRatio[1] = d.width * d.aspectRatio[2] * h[2]
        /\ (d.width = 800 /\ d.aspectRatio = <<2, 1>> /\ d.height = <<>>) =>
               h = <<400, 1>>

C8_Witness ==
    LET d == props.data
    IN  /\ d.height # <<>>
        /\ d.height[1] * d.aspectRatio[1] # d.width * d.aspectRatio[2]
        /\ out.placeholder.svg.height = <<d.height[1], 1>>

\* C9: a callback whose first entry is not intersecting changes neither flag
\* and leaves the watcher attached, whatever its later entries; a callback
\* whose first entry is intersecting sets isIntersecting and detaches the
\* watcher in the same step; isIntersecting is written at most once per mount.
C9_FirstEntryOnly ==
    /\ [](inViewWrites <= 1)
    /\ [][(/\ phase = "mounted" /\ observer = "observing"
           /\ lastCall'.op = "callback")
          => IF lastCall'.entries[1]
             THEN /\ inView' /\ inViewWrites' = inViewWrites + 1
                  /\ observer' = "disconnected"
                  /\ loaded' = loaded
             ELSE UNCHANGED <<inView, loaded, observer, inViewWrites,
                              disconnectCalls, out>>]_vars

C9_Witness ==
    /\ lastCall.op = "callback" /\ Len(lastCall.entries) >= 2
    /\ ~lastCall.entries[1] /\ lastCall.entries[2]
    /\ ~inView /\ observer = "observing"

\* C10: shouldRevealRealImage implies shouldMountRealImage, and the
\* background layer has opacity 0 exactly when the real image is present
\* with opacity 1, and opacity 1 otherwise.
C10_BackgroundHiddenOnlyBehindOpaqueImage ==
    /\ ShouldShowImage(props, inView, loaded) => ShouldAddImage(props, inView, loaded)
    /\ (BgOpacity = "0") = (PicturePresent /\ ImgOpacity = "1")
    /\ (BgOpacity = "1") = ~(PicturePresent /\ ImgOpacity = "1")

C10_Witness ==
    /\ env = "dom" /\ props.lazyLoad /\ ~loaded
    /\ PicturePresent /\ ImgOpacity = "1" /\ BgOpacity = "0"

====
